---- MODULE Spec2Model ----
(***************************************************************************)
(* A model of the skill client: the Skill Catalog (core/skill_loader.py),   *)
(* the tool-argument parser and the ReAct loop (core/base_agent.py), the    *)
(* Tool Registry (core/base_tools.py) and the Model Gateway                 *)
(* (core/llm_client.py).                                                    *)
(***************************************************************************)
EXTENDS Integers, Sequences, FiniteSets, TLC

VARIABLES
    \* ---- the file system under the skills directory
    marker,           \* folder -> content of <folder>/SKILL.md, or a File* status
    resfile,          \* folder -> resource path -> content, or a File* status
    \* ---- SkillLoader
    skill_metadata,   \* self.skill_metadata: name -> [name, description, path]
    skill_content,    \* self.skill_content: name -> full SKILL.md text
    skill_resources,  \* self.skill_resources: name -> (resource path -> content)
    last,             \* the last catalog call: its arguments, result and reads
    \* ---- BaseAgent
    skill_loader,     \* self.skill_loader is set
    max_rounds,       \* self.max_rounds
    activated_skills, \* self.activated_skills, in insertion order: <<[name, body]>>
    \* ---- one call of BaseAgent.chat
    pc,               \* "idle", "loop", "await_llm", "tools", "returned", "raised"
    messages,         \* the caller's message list
    full_messages,    \* the local full_messages
    round_count,      \* the local round_count
    tc_index,         \* position in last_message["tool_calls"]
    retval,           \* what chat returned
    llm_calls,        \* the calls of llm_client.chat this call of chat has made
    offered,          \* the requests the backend of this run may issue
    tools,            \* the tools passed to llm_client.chat in this round, by name
    workdir,          \* the files under the working directory of the tools
    \* ---- one application of BaseAgent._parse_tool_args
    parse_in,         \* [arguments, function_name]
    parse_out,        \* [called, args, err]
    \* ---- one call of BaseToolExecutor.execute_tool from outside the agent
    tool_out,         \* [called, tool_name, args, raise, ran, result]
    \* ---- one call of BaseAgent._handle_use_skill from outside a chat
    use_out,          \* [called, skill_name, before, raise, result, loader_called, ret]
    \* ---- the last call of SkillLoader.discover_skills
    discover_out,     \* [called, ret: the mapping returned]
    \* ---- several agents sharing the SkillLoader, each in a use_skill request
    scheduler,        \* how they run: "event_loop" (coroutines of one loop), "threads"
    sessions,         \* session -> [pc, name, content, activated]
    marker_reads,     \* name -> the SKILL.md reads of the sessions that succeeded
    \* ---- two calls of chat on the one agent, as coroutines of one event loop
    current,          \* the call that is running: its locals are the variables above
    parked            \* the locals of the other call, suspended or not begun

fsvars == <<marker, resfile>>
loadervars == <<skill_metadata, skill_content, skill_resources, last>>
agentvars == <<skill_loader, max_rounds, activated_skills>>
chatvars == <<pc, messages, full_messages, round_count, tc_index, retval, llm_calls, offered,
              tools, workdir>>
parsevars == <<parse_in, parse_out>>
toolvars == <<tool_out, use_out, discover_out>>
sessionvars == <<scheduler, sessions, marker_reads>>
callvars == <<current, parked>>
vars == <<fsvars, loadervars, agentvars, chatvars, parsevars, toolvars, sessionvars, callvars>>

(***************************************************************************)
(* Python values.  A raw str is a sequence of tokens standing for its       *)
(* characters; a str that json.loads produced is tagged "jstr" and holds    *)
(* the text of the literal.  Both are Python str.                           *)
(***************************************************************************)
PyNone == [t |-> "NoneType", v |-> <<>>]
PyInt(n) == [t |-> "int", v |-> n]
PyList(s) == [t |-> "list", v |-> s]
PyDict(m) == [t |-> "dict", v |-> m]
PyStr(toks) == [t |-> "str", v |-> toks]
JStr(x) == [t |-> "jstr", v |-> x]

EmptyMap == [k \in {} |-> PyNone]
MapPut(m, k, x) == [j \in DOMAIN m \cup {k} |-> IF j = k THEN x ELSE m[j]]

\* Tokens of a raw string: punctuation and literals, a string literal, a string
\* literal holding a raw control character, white space, any other text.
Tok(c) == [k |-> "p", c |-> c, ctl |-> FALSE]
StrTok(c) == [k |-> "str", c |-> c, ctl |-> FALSE]
CtlStrTok(c) == [k |-> "str", c |-> c, ctl |-> TRUE]
WsTok == [k |-> "ws", c |-> " ", ctl |-> FALSE]
JunkTok == [k |-> "junk", c |-> "not json", ctl |-> FALSE]
EofTok == [k |-> "eof", c |-> "", ctl |-> FALSE]

At(s, i) == IF i >= 1 /\ i <= Len(s) THEN s[i] ELSE EofTok
StrVal(tok) == IF tok.ctl THEN tok.c \o "\t" ELSE tok.c

(***************************************************************************)
(* json.loads(s, strict): white space is skipped around every token; a      *)
(* string literal holding a raw control character is accepted only when     *)
(* strict is false; text left after the value is an error.                  *)
(***************************************************************************)
JsonFail == [ok |-> FALSE, val |-> PyNone, pos |-> 0]
JsonOk(v, p) == [ok |-> TRUE, val |-> v, pos |-> p]

RECURSIVE SkipWs(_, _)
SkipWs(s, i) == IF At(s, i).k = "ws" THEN SkipWs(s, i + 1) ELSE i

RECURSIVE scan_once(_, _, _)
RECURSIVE JSONObjectLoop(_, _, _, _)
RECURSIVE JSONArrayLoop(_, _, _, _)

\* One "key": value pair at i, then '}' or ',' and the next pair.
JSONObjectLoop(s, i, strict, acc) ==
    LET key == At(s, i)
        colon == SkipWs(s, i + 1)
        val == scan_once(s, SkipWs(s, colon + 1), strict)
        after == SkipWs(s, val.pos)
    IN  IF key.k # "str" \/ (key.ctl /\ strict) THEN JsonFail
        ELSE IF At(s, colon) # Tok(":") THEN JsonFail
        ELSE IF ~val.ok THEN JsonFail
        ELSE IF At(s, after) = Tok("}")
             THEN JsonOk(PyDict(MapPut(acc, StrVal(key), val.val)), after + 1)
        ELSE IF At(s, after) # Tok(",") THEN JsonFail
        ELSE JSONObjectLoop(s, SkipWs(s, after + 1), strict,
                            MapPut(acc, StrVal(key), val.val))

JSONObject(s, i, strict) ==
    LET j == SkipWs(s, i)
    IN  IF At(s, j) = Tok("}") THEN JsonOk(PyDict(EmptyMap), j + 1)
        ELSE JSONObjectLoop(s, j, strict, EmptyMap)

\* One value at i, then ']' or ',' and the next value.
JSONArrayLoop(s, i, strict, acc) ==
    LET val == scan_once(s, i, strict)
        after == SkipWs(s, val.pos)
    IN  IF ~val.ok THEN JsonFail
        ELSE IF At(s, after) = Tok("]")
             THEN JsonOk(PyList(Append(acc, val.val)), after + 1)
        ELSE IF At(s, after) # Tok(",") THEN JsonFail
        ELSE JSONArrayLoop(s, SkipWs(s, after + 1), strict, Append(acc, val.val))

JSONArray(s, i, strict) ==
    LET j == SkipWs(s, i)
    IN  IF At(s, j) = Tok("]") THEN JsonOk(PyList(<<>>), j + 1)
        ELSE JSONArrayLoop(s, j, strict, <<>>)

scan_once(s, i, strict) ==
    LET c == At(s, i)
    IN  CASE c.k = "str" -> IF c.ctl /\ strict THEN JsonFail
                            ELSE JsonOk(JStr(StrVal(c)), i + 1)
          [] c = Tok("null") -> JsonOk(PyNone, i + 1)
          [] c = Tok("1") -> JsonOk(PyInt(1), i + 1)
          [] c = Tok("{") -> JSONObject(s, i + 1, strict)
          [] c = Tok("[") -> JSONArray(s, i + 1, strict)
          [] OTHER -> JsonFail

json_loads(s, strict) ==
    LET val == scan_once(s, SkipWs(s, 1), strict)
    IN  IF val.ok /\ SkipWs(s, val.pos) = Len(s) + 1 THEN val ELSE JsonFail

(***************************************************************************)
(* BaseAgent._parse_tool_args                                               *)
(***************************************************************************)
SnippetLimit == 200
\* "...(truncated)", character by character.
TruncatedMark ==
    <<Tok("."), Tok("."), Tok("."), Tok("("), Tok("t"), Tok("r"), Tok("u"), Tok("n"),
      Tok("c"), Tok("a"), Tok("t"), Tok("e"), Tok("d"), Tok(")")>>
NoError == [kind |-> "none", tool |-> "", detail |-> <<>>]
ErrNotString(fn, ty) == [kind |-> "not_json_string", tool |-> fn, detail |-> <<Tok(ty)>>]
ErrInvalidJson(fn, snippet) == [kind |-> "invalid_json", tool |-> fn, detail |-> snippet]

RECURSIVE LStrip(_)
LStrip(s) == IF s # <<>> /\ Head(s).k = "ws" THEN LStrip(Tail(s)) ELSE s
RECURSIVE RStrip(_)
RStrip(s) == IF s # <<>> /\ s[Len(s)].k = "ws" THEN RStrip(SubSeq(s, 1, Len(s) - 1)) ELSE s
Strip(s) == RStrip(LStrip(s))

Snippet(s) ==
    IF Len(Strip(s)) > SnippetLimit
    THEN SubSeq(Strip(s), 1, SnippetLimit) \o TruncatedMark
    ELSE Strip(s)

\* What the first json.loads that does not fail returns (lines 180-184).
LoadsNonStrictFallback(s) ==
    IF json_loads(s, TRUE).ok THEN json_loads(s, TRUE) ELSE json_loads(s, FALSE)

_parse_tool_args_NoBlankCheck(arguments, function_name) ==
    IF arguments.t = "NoneType" THEN [args |-> PyDict(EmptyMap), err |-> NoError]
    ELSE IF arguments.t = "dict" THEN [args |-> arguments, err |-> NoError]
    ELSE IF arguments.t # "str"
         THEN [args |-> PyNone, err |-> ErrNotString(function_name, arguments.t)]
    ELSE IF LoadsNonStrictFallback(arguments.v).ok
         THEN [args |-> LoadsNonStrictFallback(arguments.v).val, err |-> NoError]
    ELSE [args |-> PyNone, err |-> ErrInvalidJson(function_name, Snippet(arguments.v))]

_parse_tool_args(arguments, function_name) ==
    IF arguments.t = "NoneType" THEN [args |-> PyDict(EmptyMap), err |-> NoError]
    ELSE IF arguments.t = "dict" THEN [args |-> arguments, err |-> NoError]
    ELSE IF arguments.t # "str"
         THEN [args |-> PyNone, err |-> ErrNotString(function_name, arguments.t)]
    ELSE IF Strip(arguments.v) = <<>> THEN [args |-> PyDict(EmptyMap), err |-> NoError]
    ELSE IF LoadsNonStrictFallback(arguments.v).ok
         THEN [args |-> LoadsNonStrictFallback(arguments.v).val, err |-> NoError]
    ELSE [args |-> PyNone, err |-> ErrInvalidJson(function_name, Snippet(arguments.v))]

(***************************************************************************)
(* The skills directory.  A text is what a file holds: fm is what the       *)
(* front matter of a SKILL.md parses to ("ok": a mapping with a name,       *)
(* "noname": a mapping without one, "none": the text does not start with    *)
(* "---", "bad": yaml.safe_load raises or returns no mapping), ver tells    *)
(* two texts apart.                                                         *)
(***************************************************************************)
Folders == {"f1", "f2"}
SkillNames == {"s1", "s2"}
UnknownName == "zz"
ResourcePaths == {"ref.md"}

\* The description of a header whose description key has no value: None.
DescNone == "None"
MkText(fm, name, desc, ver) == [fm |-> fm, name |-> name, desc |-> desc, ver |-> ver]
EmptyText == MkText("none", "", "", 0)
FileAbsent == [st |-> "absent", text |-> EmptyText]
FileUnreadable == [st |-> "unreadable", text |-> EmptyText]
FileOf(text) == [st |-> "file", text |-> text]

\* Optional[...] results.
Absent == [some |-> FALSE, val |-> EmptyText]
Some(x) == [some |-> TRUE, val |-> x]

EmptyFn == [k \in {} |-> EmptyText]
FnPut(m, k, x) == [j \in DOMAIN m \cup {k} |-> IF j = k THEN x ELSE m[j]]

(***************************************************************************)
(* SkillLoader                                                              *)
(***************************************************************************)
\* _load_skill_metadata: the metadata, None, or an exception.
_load_skill_metadata(fs, folder) ==
    LET f == fs[folder]
    IN  IF f.st # "file" THEN [st |-> "raise", meta |-> <<>>]
        ELSE IF f.text.fm = "none" THEN [st |-> "none", meta |-> <<>>]
        ELSE IF f.text.fm = "bad" THEN [st |-> "raise", meta |-> <<>>]
        ELSE [st |-> "ok",
              meta |-> [name |-> IF f.text.fm = "noname" THEN folder ELSE f.text.name,
                        description |-> f.text.desc,
                        path |-> folder]]

\* The loop of discover_skills over skill_folders in the order of the scan.  The
\* metadata is stored (line 64) before the description is printed (line 66), so
\* a description that cannot be sliced is stored before the failure is caught.
RECURSIVE DiscoverLoop_AbortOnFailure(_, _, _)
DiscoverLoop_AbortOnFailure(fs, order, meta) ==
    IF order = <<>> THEN meta
    ELSE LET m == _load_skill_metadata(fs, Head(order))
         IN  IF m.st = "raise" THEN meta
             ELSE DiscoverLoop_AbortOnFailure(fs, Tail(order),
                     IF m.st = "ok" THEN FnPut(meta, m.meta.name, m.meta) ELSE meta)

RECURSIVE DiscoverLoop(_, _, _)
DiscoverLoop(fs, order, meta) ==
    IF order = <<>> THEN meta
    ELSE LET m == _load_skill_metadata(fs, Head(order))
         IN  DiscoverLoop(fs, Tail(order),
                          IF m.st = "ok" THEN FnPut(meta, m.meta.name, m.meta) ELSE meta)

\* skill_folders: the directories that hold a SKILL.md, in the order of the scan.
SkillFolders(fs, scan) == SelectSeq(scan, LAMBDA f : fs[f].st # "absent")

discover_skills(fs, scan, meta) == DiscoverLoop(fs, SkillFolders(fs, scan), meta)

\* What discover_skills returns: {} when no folder holds a SKILL.md (line 56),
\* self.skill_metadata otherwise (line 74).
discover_skills_return(fs, scan, meta) ==
    IF SkillFolders(fs, scan) = <<>> THEN EmptyFn ELSE discover_skills(fs, scan, meta)

ScanOrders == {<<"f1", "f2">>, <<"f2", "f1">>}

\* Lines 115-117: the body is in the cache.
activate_skill_cached_IfTruthy(name) ==
    name \in DOMAIN skill_content /\ skill_content[name] # EmptyText
activate_skill_cached(name) == name \in DOMAIN skill_content

\* activate_skill: [ret, content: the new skill_content, read: read_text was called]

LoaderActivate(name) ==
    IF name \notin DOMAIN skill_metadata
    THEN [ret |-> Absent, content |-> skill_content, read |-> FALSE]
    ELSE IF activate_skill_cached(name)
    THEN [ret |-> Some(skill_content[name]), content |-> skill_content, read |-> FALSE]
    ELSE LET f == marker[skill_metadata[name].path]
         IN  IF f.st = "file"
             THEN [ret |-> Some(f.text), content |-> FnPut(skill_content, name, f.text),
                   read |-> TRUE]
             ELSE [ret |-> Absent, content |-> skill_content, read |-> TRUE]

\* A resource_path as pathlib splits it: absolute or not, and its parts.  The
\* paths of the model: a file of the bundle, a path that leaves the bundle by
\* "..", an absolute path.
SkillsDir == "skills"
EscapingPaths == {"../f2/ref.md", "/outside/ref.md"}
PathParts(path) ==
    CASE path = "../f2/ref.md" -> [abs |-> FALSE, parts |-> <<"..", "f2", "ref.md">>]
      [] path = "/outside/ref.md" -> [abs |-> TRUE, parts |-> <<"outside", "ref.md">>]
      [] OTHER -> [abs |-> FALSE, parts |-> <<path>>]
\* The directory entries a path leads through: ".." goes up, a name goes down.
RECURSIVE Walk(_, _)
Walk(stack, parts) ==
    IF parts = <<>> THEN stack
    ELSE IF Head(parts) = ".."
    THEN Walk(IF stack = <<>> THEN stack ELSE SubSeq(stack, 1, Len(stack) - 1), Tail(parts))
    ELSE Walk(Append(stack, Head(parts)), Tail(parts))

\* skill_path / resource_path: an absolute resource_path replaces skill_path.
\* The file that exists() and read_text() then reach: [dir, file].
ResolveResource(folder, path) ==
    LET loc == Walk(IF PathParts(path).abs THEN <<>> ELSE <<SkillsDir, folder>>,
                    PathParts(path).parts)
    IN  [dir |-> SubSeq(loc, 1, Len(loc) - 1), file |-> loc[Len(loc)]]
\* The files of the machine: those of the bundles, and one outside the skills
\* directory.
OutsideText == MkText("none", "outside", "", 1)
ResourceFile(loc) ==
    IF Len(loc.dir) = 2 /\ loc.dir[1] = SkillsDir /\ loc.dir[2] \in Folders
       /\ loc.file \in ResourcePaths
    THEN resfile[loc.dir[2]][loc.file]
    ELSE IF loc = [dir |-> <<"outside">>, file |-> "ref.md"] THEN FileOf(OutsideText)
    ELSE FileAbsent

\* Lines 152-154: the skill is not in skill_metadata.
LoadResourceUnknownSkill_CacheFirst(name) ==
    [ret |-> Absent, resources |-> FnPut(skill_resources, name, EmptyFn), read |-> FALSE]
LoadResourceUnknownSkill(name) ==
    [ret |-> Absent, resources |-> skill_resources, read |-> FALSE]

\* Lines 167-169: the resource is in the cache of its skill.
load_resource_cached_WrongLevel(resources, name, path) == path \in DOMAIN resources
load_resource_cached(resources, name, path) == path \in DOMAIN resources[name]

\* Line 152: the skill has been discovered.
load_resource_known_IfActivated(name) == name \in DOMAIN skill_content
load_resource_known(name) == name \in DOMAIN skill_metadata

\* load_resource: [ret, resources: the new skill_resources, read]
LoaderLoadResource(name, path) ==
    IF ~load_resource_known(name)
    THEN LoadResourceUnknownSkill(name)
    ELSE LET f == ResourceFile(ResolveResource(skill_metadata[name].path, path))
             init == IF name \in DOMAIN skill_resources THEN skill_resources
                     ELSE FnPut(skill_resources, name, EmptyFn)
         IN  IF f.st = "absent"
             THEN [ret |-> Absent, resources |-> skill_resources, read |-> FALSE]
             ELSE IF load_resource_cached(init, name, path)
             THEN [ret |-> Some(init[name][path]), resources |-> init, read |-> FALSE]
             ELSE IF f.st = "file"
             THEN [ret |-> Some(f.text),
                   resources |-> FnPut(init, name, FnPut(init[name], path, f.text)),
                   read |-> TRUE]
             ELSE [ret |-> Absent, resources |-> init, read |-> TRUE]

list_skills == DOMAIN skill_metadata
get_skill_description(name) ==
    IF name \in DOMAIN skill_metadata /\ skill_metadata[name].description # DescNone
    THEN Some(skill_metadata[name].description)
    ELSE Absent

(***************************************************************************)
(* Conversation messages.  The content of a message is text; the model      *)
(* keeps what the text is made of: its kind, the skill or tool it names,    *)
(* the detail it echoes, and for the system message the catalog summaries   *)
(* and the skill bodies appended to the base prompt.                        *)
(***************************************************************************)
Cont(kind, skill, tool, detail, summaries, bodies) ==
    [kind |-> kind, skill |-> skill, tool |-> tool, detail |-> detail,
     summaries |-> summaries, bodies |-> bodies]
Text(kind) == Cont(kind, JStr(""), "", <<>>, {}, <<>>)
NoId == <<>>
Msg(role, content, has_tc, tool_calls, tool_call_id, name) ==
    [role |-> role, content |-> content, has_tool_calls |-> has_tc,
     tool_calls |-> tool_calls, tool_call_id |-> tool_call_id, name |-> name]
UserMsg == Msg("user", Text("user_text"), FALSE, <<>>, NoId, "")
AssistantText == Msg("assistant", Text("assistant_text"), FALSE, <<>>, NoId, "")
ToolMsg(id, name, result) == Msg("tool", result, FALSE, <<>>, id, name)
ToolCall(id, name, arguments) ==
    [id |-> id, function |-> [name |-> name, arguments |-> arguments]]

(***************************************************************************)
(* BaseToolExecutor                                                         *)
(***************************************************************************)
Registry == {"read_file", "write_file", "list_files", "execute_bash", "create_directory"}
ToolParams(name) ==
    CASE name = "write_file" -> {"path", "content"}
      [] name = "execute_bash" -> {"command"}
      [] OTHER -> {"path"}
WorkPaths == {"out.txt"}
NoFile == [st |-> "absent", data |-> <<>>]
DataFile(d) == [st |-> "file", data |-> d]

ToolText(kind, tool, detail) == Cont(kind, JStr(""), tool, detail, {}, <<>>)

\* The characters of a text, as far as line ends matter: CR and LF apart, the
\* rest in pieces.  The texts are named by their JSON literals.
CrLfText == "a\\r\\nb"
Chars(x) == IF x = CrLfText THEN <<"a", "CR", "LF", "b">> ELSE <<x>>
\* open(file_path, 'r') reads with universal newlines: CR LF and CR become LF.
RECURSIVE UniversalNewlines(_)
UniversalNewlines(cs) ==
    IF cs = <<>> THEN <<>>
    ELSE IF Head(cs) = "CR"
    THEN <<"LF">> \o UniversalNewlines(IF Len(cs) > 1 /\ cs[2] = "LF" THEN Tail(Tail(cs))
                                      ELSE Tail(cs))
    ELSE <<Head(cs)>> \o UniversalNewlines(Tail(cs))

_read_file(path) ==
    IF path.t # "jstr" THEN [raise |-> TRUE, result |-> Text(""), workdir |-> workdir]
    ELSE IF path.v \notin WorkPaths \/ workdir[path.v].st = "absent"
    THEN [raise |-> FALSE, result |-> ToolText("file_not_found", "read_file", <<>>),
          workdir |-> workdir]
    ELSE [raise |-> FALSE,
          result |-> ToolText("file_content", "read_file",
                              UniversalNewlines(workdir[path.v].data)),
          workdir |-> workdir]

\* open(path, 'w') creates or empties the file before f.write(content) is tried.
_write_file_NotStored(path, content) ==
    IF path.t # "jstr" THEN [raise |-> TRUE, result |-> Text(""), workdir |-> workdir]
    ELSE [raise |-> FALSE, result |-> ToolText("wrote", "write_file", <<>>),
          workdir |-> workdir]

_write_file(path, content) ==
    IF path.t # "jstr" THEN [raise |-> TRUE, result |-> Text(""), workdir |-> workdir]
    ELSE IF path.v \notin WorkPaths
    THEN [raise |-> FALSE, result |-> ToolText("wrote", "write_file", <<>>),
          workdir |-> workdir]
    ELSE IF content.t # "jstr"
    THEN [raise |-> FALSE, result |-> ToolText("write_error", "write_file", <<>>),
          workdir |-> [workdir EXCEPT ![path.v] = DataFile(<<>>)]]
    ELSE [raise |-> FALSE, result |-> ToolText("wrote", "write_file", <<>>),
          workdir |-> [workdir EXCEPT ![path.v] = DataFile(Chars(content.v))]]

\* The other handlers catch their own failures and return a text; list_files
\* and create_directory resolve the path before their try.
OtherHandler(name, kwargs) ==
    IF name # "execute_bash" /\ kwargs["path"].t # "jstr"
    THEN [raise |-> TRUE, result |-> Text(""), workdir |-> workdir]
    ELSE [raise |-> FALSE, result |-> ToolText("tool_output", name, <<>>),
          workdir |-> workdir]

Handler(name, kwargs) ==
    CASE name = "read_file" -> _read_file(kwargs["path"])
      [] name = "write_file" -> _write_file(kwargs["path"], kwargs["content"])
      [] OTHER -> OtherHandler(name, kwargs)

\* handler(**args): TypeError unless args is a mapping whose keys are the
\* handler's parameters; then the handler runs.
HandlerCall(tool_name, args) ==
    IF args.t # "dict" \/ DOMAIN args.v # ToolParams(tool_name)
    THEN [raise |-> TRUE, result |-> Text(""), workdir |-> workdir]
    ELSE Handler(tool_name, args.v)

\* execute_tool: [raise, ran: a handler was called, result, workdir]
execute_tool_NoTry(tool_name, args) ==
    IF tool_name \notin Registry
    THEN [raise |-> FALSE, ran |-> FALSE,
          result |-> ToolText("unknown_tool", tool_name, <<>>), workdir |-> workdir]
    ELSE LET h == HandlerCall(tool_name, args)
         IN  [raise |-> h.raise, ran |-> TRUE, result |-> h.result, workdir |-> h.workdir]

execute_tool(tool_name, args) ==
    IF tool_name \notin Registry
    THEN [raise |-> FALSE, ran |-> FALSE,
          result |-> ToolText("unknown_tool", tool_name, <<>>), workdir |-> workdir]
    ELSE LET h == HandlerCall(tool_name, args)
         IN  IF h.raise
             THEN [raise |-> FALSE, ran |-> TRUE,
                   result |-> ToolText("error_executing", tool_name, <<>>),
                   workdir |-> h.workdir]
             ELSE [raise |-> FALSE, ran |-> TRUE, result |-> h.result,
                   workdir |-> h.workdir]

(***************************************************************************)
(* BaseAgent                                                                *)
(***************************************************************************)
ActivatedNames == {activated_skills[i].name : i \in 1..Len(activated_skills)}
Hashable(v) == v.t \notin {"list", "dict"}
Truthy(text) == text # EmptyText

\* self.activated_skills[skill_name] = content, the dict kept in insertion order.
DictSet_Reset(d, name, body) == <<[name |-> name, body |-> body]>>
DictSet(d, name, body) ==
    IF \E i \in 1..Len(d) : d[i].name = name
    THEN [i \in 1..Len(d) |-> IF d[i].name = name THEN [name |-> name, body |-> body]
                               ELSE d[i]]
    ELSE Append(d, [name |-> name, body |-> body])

\* BaseAgent.activate_skill: [raise, ok, activated, loader: what activate_skill of
\* the catalog did, called: whether it was called]
NotCalled == [ret |-> Absent, content |-> skill_content, read |-> FALSE]
AgentActivateSkill_NoAlreadyCheck(skill_name) ==
    IF ~skill_loader
    THEN [raise |-> FALSE, ok |-> FALSE, activated |-> activated_skills,
          loader |-> NotCalled, called |-> FALSE]
    ELSE IF ~Hashable(skill_name)
    THEN [raise |-> TRUE, ok |-> FALSE, activated |-> activated_skills,
          loader |-> NotCalled, called |-> FALSE]
    ELSE IF skill_name.t # "jstr"
    THEN [raise |-> FALSE, ok |-> FALSE, activated |-> activated_skills,
          loader |-> NotCalled, called |-> TRUE]
    ELSE LET r == LoaderActivate(skill_name.v)
         IN  IF r.ret.some /\ Truthy(r.ret.val)
             THEN [raise |-> FALSE, ok |-> TRUE,
                   activated |-> DictSet(activated_skills, skill_name.v, r.ret.val),
                   loader |-> r, called |-> TRUE]
             ELSE [raise |-> FALSE, ok |-> FALSE, activated |-> activated_skills,
                   loader |-> r, called |-> TRUE]

AgentActivateSkill(skill_name) ==
    IF ~skill_loader
    THEN [raise |-> FALSE, ok |-> FALSE, activated |-> activated_skills,
          loader |-> NotCalled, called |-> FALSE]
    ELSE IF ~Hashable(skill_name)
    THEN [raise |-> TRUE, ok |-> FALSE, activated |-> activated_skills,
          loader |-> NotCalled, called |-> FALSE]
    ELSE IF skill_name.t # "jstr"
    THEN [raise |-> FALSE, ok |-> FALSE, activated |-> activated_skills,
          loader |-> NotCalled, called |-> TRUE]
    ELSE IF skill_name.v \in ActivatedNames
    THEN [raise |-> FALSE, ok |-> TRUE, activated |-> activated_skills,
          loader |-> NotCalled, called |-> FALSE]
    ELSE LET r == LoaderActivate(skill_name.v)
         IN  IF r.ret.some /\ Truthy(r.ret.val)
             THEN [raise |-> FALSE, ok |-> TRUE,
                   activated |-> DictSet(activated_skills, skill_name.v, r.ret.val),
                   loader |-> r, called |-> TRUE]
             ELSE [raise |-> FALSE, ok |-> FALSE, activated |-> activated_skills,
                   loader |-> r, called |-> TRUE]

\* _handle_use_skill: the result message of an activation request.
_handle_use_skill(skill_name) ==
    LET a == AgentActivateSkill(skill_name)
    IN  [raise |-> a.raise,
         result |-> Cont(IF a.ok THEN "skill_activated" ELSE "skill_failed",
                         skill_name, "use_skill", <<>>, {}, <<>>),
         activated |-> a.activated, loader |-> a.loader, called |-> a.called]

\* get_available_skills: name and description of every discovered skill.
get_available_skills ==
    IF ~skill_loader THEN {}
    ELSE {[name |-> n, description |-> get_skill_description(n).val] : n \in list_skills}

\* The system message chat synthesizes: the base prompt, the Level-1 list,
\* the Level-2 bodies of activated_skills.
SystemBodies == activated_skills
SystemSummaries_NotYetActivated ==
    {m \in get_available_skills : m.name \notin ActivatedNames}
SystemSummaries == get_available_skills
SystemMsg ==
    Msg("system", Cont("system_prompt", JStr(""), "", <<>>, SystemSummaries, SystemBodies),
        FALSE, <<>>, NoId, "")

\* tools: use_skill when a loader is set, then the registry's definitions.
ToolDefinitions == <<"read_file", "write_file", "list_files", "execute_bash",
                     "create_directory">>
OfferedTools_AlwaysUseSkill == <<"use_skill">> \o ToolDefinitions
OfferedTools == (IF skill_loader THEN <<"use_skill">> ELSE <<>>) \o ToolDefinitions

(***************************************************************************)
(* LLMClient.chat: one request to the backend, turned into a list of one    *)
(* assistant message.  The backend fails, or answers with tool calls (in    *)
(* its order, each with its own id) or without.                             *)
(***************************************************************************)
MaxCalls == 2
MaxRounds == 2

ObjStr(k, v) == <<Tok("{"), StrTok(k), Tok(":"), StrTok(v), Tok("}")>>
ArgsSkill(n) == PyStr(ObjStr("skill_name", n))
ArgsNull == PyStr(<<Tok("null")>>)
ArgsRead(path) == PyStr(ObjStr("path", path))
ArgsWrite(path, content) ==
    PyStr(<<Tok("{"), StrTok("path"), Tok(":"), StrTok(path), Tok(","),
            StrTok("content"), Tok(":"), StrTok(content), Tok("}")>>)
ArgsJunk == PyStr(<<JunkTok>>)
ArgsEmptyObj == PyStr(<<Tok("{"), Tok("}")>>)
Req(name, arguments) == [name |-> name, arguments |-> arguments]

\* What a backend may ask for in one run.
Profiles ==
    { {Req("use_skill", ArgsSkill("s1")), Req("foo", ArgsEmptyObj)},
      {Req("use_skill", ArgsSkill("s1")), Req("read_file", ArgsJunk)},
      {Req("use_skill", ArgsSkill("s1")), Req("use_skill", ArgsNull)},
      {Req("use_skill", ArgsSkill("s1")), Req("use_skill", ArgsSkill(UnknownName))},
      {Req("foo", ArgsEmptyObj), Req("use_skill", ArgsNull)},
      {Req("read_file", ArgsJunk), Req("use_skill", ArgsNull)},
      {Req("write_file", ArgsWrite("out.txt", "hi")), Req("read_file", ArgsRead("out.txt"))},
      {Req("write_file", ArgsWrite("out.txt", CrLfText)),
       Req("read_file", ArgsRead("out.txt"))} }

Completions ==
    {[fail |-> TRUE, calls |-> <<>>]}
    \cup {[fail |-> FALSE, calls |-> c] :
            c \in UNION {[1..k -> offered] : k \in 0..MaxCalls}}

\* Lines 158-169: the tool calls of the backend as dicts, ids and order kept.
ToolCallsList(calls, round) ==
    [i \in 1..Len(calls) |-> ToolCall(<<round, i>>, calls[i].name, calls[i].arguments)]

llm_client_chat_AlwaysToolCallsKey(completion, round) ==
    IF completion.fail
    THEN <<Msg("assistant", Text("api_error"), FALSE, <<>>, NoId, "")>>
    ELSE <<Msg("assistant", Text("assistant_text"), TRUE,
               ToolCallsList(completion.calls, round), NoId, "")>>

llm_client_chat_ErrorWithToolCallsKey(completion, round) ==
    IF completion.fail
    THEN <<Msg("assistant", Text("api_error"), TRUE, <<>>, NoId, "")>>
    ELSE IF completion.calls # <<>>
    THEN <<Msg("assistant", Text("assistant_text"), TRUE,
               ToolCallsList(completion.calls, round), NoId, "")>>
    ELSE <<AssistantText>>

llm_client_chat(completion, round) ==
    IF completion.fail
    THEN <<Msg("assistant", Text("api_error"), FALSE, <<>>, NoId, "")>>
    ELSE IF completion.calls # <<>>
    THEN <<Msg("assistant", Text("assistant_text"), TRUE,
               ToolCallsList(completion.calls, round), NoId, "")>>
    ELSE <<AssistantText>>

(***************************************************************************)
(* BaseAgent.chat, one action per stretch between two awaits.               *)
(***************************************************************************)
NoMsg == Msg("none", Text(""), FALSE, <<>>, NoId, "")
NoCall == [op |-> "none", name |-> "", path |-> "", ret |-> Absent, read |-> FALSE,
           cached |-> FALSE]
InputMessages == {<<>>, <<UserMsg>>}
Last(s) == s[Len(s)]

\* Lines 205-235: the system message and the caller's messages.
ChatStart(msgs) ==
    /\ pc = "idle"
    /\ messages' = msgs
    /\ full_messages' = <<SystemMsg>> \o msgs
    /\ round_count' = 0
    /\ llm_calls' = 0
    /\ tc_index' = 0
    /\ retval' = NoMsg
    /\ pc' = "loop"
    /\ UNCHANGED <<callvars, sessionvars, fsvars, loadervars, agentvars, parsevars, toolvars, offered, tools, workdir>>

\* Lines 238-251: the loop test, the round counter, the call of the gateway.
GatewayCall ==
    /\ pc = "loop"
    /\ round_count < max_rounds
    /\ round_count' = round_count + 1
    /\ llm_calls' = llm_calls + 1
    /\ tools' = OfferedTools
    /\ pc' = "await_llm"
    /\ UNCHANGED <<callvars, sessionvars, fsvars, loadervars, agentvars, parsevars, toolvars, messages, full_messages,
                   tc_index, retval, offered, workdir>>

\* Lines 300-303: what chat returns at the round limit.
MaxRoundsPlaceholder == Msg("assistant", Text("max_rounds_error"), FALSE, <<>>, NoId, "")
RoundLimitReturn_Placeholder == MaxRoundsPlaceholder
RoundLimitReturn ==
    IF full_messages # <<>> THEN Last(full_messages) ELSE MaxRoundsPlaceholder

\* Lines 299-303: the round limit.
ReturnAtRoundLimit ==
    /\ pc = "loop"
    /\ ~(round_count < max_rounds)
    /\ retval' = RoundLimitReturn
    /\ pc' = "returned"
    /\ UNCHANGED <<callvars, sessionvars, fsvars, loadervars, agentvars, parsevars, toolvars, messages, full_messages,
                   round_count, tc_index, llm_calls, offered, tools, workdir>>

\* Lines 253-260 and 295-297: the reply is appended; a plain assistant message
\* is returned, tool calls are processed.
GatewayReply(completion) ==
    /\ pc = "await_llm"
    /\ LET response_messages == llm_client_chat(completion, round_count)
           extended == full_messages \o response_messages
           last_message == Last(extended)
       IN  /\ full_messages' = extended
           /\ IF last_message.role = "assistant" /\ last_message.has_tool_calls
              THEN /\ tc_index' = 1
                   /\ pc' = (IF last_message.tool_calls = <<>> THEN "loop" ELSE "tools")
                   /\ retval' = retval
              ELSE IF last_message.role = "assistant"
              THEN /\ retval' = last_message
                   /\ pc' = "returned"
                   /\ tc_index' = tc_index
              ELSE /\ pc' = "loop"
                   /\ UNCHANGED <<retval, tc_index>>
    /\ UNCHANGED <<callvars, sessionvars, fsvars, loadervars, agentvars, parsevars, toolvars, messages, round_count,
                   llm_calls, offered, tools, workdir>>

\* The assistant message whose tool calls are being processed.
CurrentAssistant == full_messages[Len(full_messages) - (tc_index - 1)]
CurrentToolCall == CurrentAssistant.tool_calls[tc_index]

ArgsGet(args, key, default) == IF key \in DOMAIN args.v THEN args.v[key] ELSE default

\* Lines 270-283: the branch taken for parsed arguments.
\* [raise, result, activated, loader, called, workdir]
DispatchResult(raise, result, activated, loader, called, wd) ==
    [raise |-> raise, result |-> result, activated |-> activated, loader |-> loader,
     called |-> called, workdir |-> wd]
FromUseSkill(h) ==
    DispatchResult(h.raise, h.result, h.activated, h.loader, h.called, workdir)
FromExecuteTool(e) ==
    DispatchResult(e.raise, e.result, activated_skills, NotCalled, FALSE, e.workdir)
DispatchParsed(function_name, parsed) ==
    IF parsed.err.kind # "none"
    THEN DispatchResult(FALSE,
                        Cont(parsed.err.kind, JStr(""), parsed.err.tool,
                             parsed.err.detail, {}, <<>>),
                        activated_skills, NotCalled, FALSE, workdir)
    ELSE IF function_name = "use_skill"
    THEN IF parsed.args.t # "dict"
         THEN DispatchResult(TRUE, Text(""), activated_skills, NotCalled, FALSE, workdir)
         ELSE FromUseSkill(_handle_use_skill(ArgsGet(parsed.args, "skill_name", JStr(""))))
    ELSE FromExecuteTool(execute_tool(function_name, parsed.args))

\* Lines 263-283: what one tool call leads to.
Dispatch(tool_call) ==
    DispatchParsed(tool_call.function.name,
                   _parse_tool_args(tool_call.function.arguments,
                                    tool_call.function.name))

\* Lines 262 and 292-293: the for loop has come to the last tool call, the
\* while loop goes on after it.
LastRequest_Always == TRUE
LastRequest == tc_index = Len(CurrentAssistant.tool_calls)

\* Lines 262-293: one tool call of the reply, its tool message appended.
ToolStep ==
    /\ pc = "tools"
    /\ \E d \in {Dispatch(CurrentToolCall)} :
           /\ activated_skills' = d.activated
           /\ skill_content' = d.loader.content
           /\ workdir' = d.workdir
           /\ last' = (IF d.called
                       THEN [op |-> "activate_skill", name |-> "", path |-> "",
                             ret |-> d.loader.ret, read |-> d.loader.read,
                             cached |-> FALSE]
                       ELSE last)
           /\ IF d.raise
              THEN /\ pc' = "raised"
                   /\ UNCHANGED <<full_messages, tc_index>>
              ELSE /\ full_messages' = Append(full_messages,
                          ToolMsg(CurrentToolCall.id, CurrentToolCall.function.name,
                                  d.result))
                   /\ IF LastRequest
                      THEN pc' = "loop" /\ tc_index' = tc_index
                      ELSE pc' = "tools" /\ tc_index' = tc_index + 1
    /\ UNCHANGED <<callvars, sessionvars, fsvars, skill_metadata, skill_resources, skill_loader, max_rounds,
                   parsevars, toolvars, messages, round_count, retval, llm_calls, offered,
                   tools>>

\* The call is over; the agent is free for the next one.
ChatEnd ==
    /\ pc \in {"returned", "raised"}
    /\ pc' = "idle"
    /\ messages' = <<>>
    /\ full_messages' = <<>>
    /\ round_count' = 0
    /\ llm_calls' = 0
    /\ tc_index' = 0
    /\ retval' = NoMsg
    /\ tools' = <<>>
    /\ UNCHANGED <<callvars, sessionvars, fsvars, loadervars, agentvars, parsevars, toolvars, offered, workdir>>

\* set_skill_loader, between two calls of chat.
SetSkillLoader ==
    /\ pc = "idle"
    /\ ~skill_loader
    /\ skill_loader' = TRUE
    /\ UNCHANGED <<callvars, sessionvars, fsvars, loadervars, max_rounds, activated_skills, chatvars, parsevars, toolvars>>

\* discover_skills, between two calls of chat.
DiscoverSkills(scan) ==
    /\ pc = "idle"
    /\ skill_metadata' = discover_skills(marker, scan, skill_metadata)
    /\ discover_out' = [called |-> TRUE,
                        ret |-> discover_skills_return(marker, scan, skill_metadata)]
    /\ last' = [NoCall EXCEPT !.op = "discover_skills"]
    /\ UNCHANGED <<callvars, sessionvars, fsvars, skill_content, skill_resources, agentvars, chatvars, parsevars,
                   tool_out, use_out>>

(***************************************************************************)
(* Calls of the catalog from outside a chat, and the files changing under   *)
(* it.                                                                      *)
(***************************************************************************)
CallNames == SkillNames \cup {UnknownName}
NoDiscoverCall == [called |-> FALSE, ret |-> EmptyFn]
SkillText(f, v) == MkText("ok", IF f = "f1" THEN "s1" ELSE "s2", "d", v)
ResourceText(v) == MkText("none", "", "", v)
BadHeaderText == MkText("bad", "", "", 1)
NoDescriptionText == MkText("ok", "s1", DescNone, 1)
\* What the files of a bundle may become: those of f1 change freely, the SKILL.md
\* of f2 comes and goes.
MarkerFiles(f) ==
    IF f = "f1"
    THEN {FileAbsent, FileUnreadable, FileOf(EmptyText), FileOf(BadHeaderText),
          FileOf(SkillText(f, 1)), FileOf(SkillText(f, 2)), FileOf(NoDescriptionText)}
    ELSE {FileAbsent, FileOf(SkillText(f, 1))}
ResourceFiles(f) ==
    IF f = "f1"
    THEN {FileAbsent, FileUnreadable, FileOf(ResourceText(1)), FileOf(ResourceText(2))}
    ELSE {FileOf(ResourceText(1))}

CallActivateSkill(name) ==
    /\ pc = "idle"
    /\ LET r == LoaderActivate(name)
       IN  /\ skill_content' = r.content
           /\ last' = [op |-> "activate_skill", name |-> name, path |-> "", ret |-> r.ret,
                       read |-> r.read, cached |-> activate_skill_cached(name)]
    /\ discover_out' = NoDiscoverCall
    /\ UNCHANGED <<callvars, sessionvars, fsvars, skill_metadata, skill_resources, agentvars, chatvars, parsevars,
                   tool_out, use_out>>

CallLoadResource(name, path) ==
    /\ pc = "idle"
    /\ LET r == LoaderLoadResource(name, path)
       IN  /\ skill_resources' = r.resources
           /\ last' = [op |-> "load_resource", name |-> name, path |-> path, ret |-> r.ret,
                       read |-> r.read,
                       cached |-> /\ name \in DOMAIN skill_resources
                                  /\ path \in DOMAIN skill_resources[name]]
    /\ discover_out' = NoDiscoverCall
    /\ UNCHANGED <<callvars, sessionvars, fsvars, skill_metadata, skill_content, agentvars, chatvars, parsevars,
                   tool_out, use_out>>

\* Another process writes, empties, removes or locks a SKILL.md.
FsSetMarker(f, file) ==
    /\ marker[f] # file
    /\ marker' = [marker EXCEPT ![f] = file]
    /\ last' = NoCall
    /\ discover_out' = NoDiscoverCall
    /\ UNCHANGED <<callvars, sessionvars, resfile, skill_metadata, skill_content, skill_resources, agentvars,
                   chatvars, parsevars, tool_out, use_out>>

\* Another process writes, removes or locks a resource file.
FsSetResource(f, path, file) ==
    /\ resfile[f][path] # file
    /\ resfile' = [resfile EXCEPT ![f][path] = file]
    /\ last' = NoCall
    /\ discover_out' = NoDiscoverCall
    /\ UNCHANGED <<callvars, sessionvars, marker, skill_metadata, skill_content, skill_resources, agentvars,
                   chatvars, parsevars, tool_out, use_out>>

(***************************************************************************)
(* One application of _parse_tool_args to a payload.                        *)
(***************************************************************************)
MaxPayloadLen == 3
\* Objects and the strings that serialize them, as json.dumps writes them.
ReferenceObjects ==
    {PyDict(EmptyMap)}
    \cup {PyDict(MapPut(EmptyMap, k, x)) :
            k \in {"skill_name", "path"},
            x \in {JStr("s1"), PyInt(1), PyNone, PyList(<<>>), PyDict(EmptyMap)}}
DumpsValue(x) ==
    CASE x.t = "jstr" -> <<StrTok(x.v)>>
      [] x.t = "int" -> <<Tok("1")>>
      [] x.t = "NoneType" -> <<Tok("null")>>
      [] x.t = "list" -> <<Tok("["), Tok("]")>>
      [] OTHER -> <<Tok("{"), Tok("}")>>
Dumps(d) ==
    IF DOMAIN d.v = {} THEN <<Tok("{"), Tok("}")>>
    ELSE LET k == CHOOSE j \in DOMAIN d.v : TRUE
         IN  <<Tok("{"), StrTok(k), Tok(":"), WsTok>> \o DumpsValue(d.v[k]) \o <<Tok("}")>>
Alphabet == {Tok("{"), Tok("}"), Tok("["), Tok("]"), Tok(":"), Tok(","), Tok("null"),
             Tok("1"), StrTok("skill_name"), CtlStrTok("s1"), WsTok, JunkTok}
TokenStrings == UNION {[1..k -> Alphabet] : k \in 0..MaxPayloadLen}
RawPayloads ==
    {PyNone, PyInt(1), PyList(<<>>), PyDict(EmptyMap),
     PyDict(MapPut(EmptyMap, "skill_name", JStr("s1")))}
    \cup {PyStr(s) : s \in TokenStrings}
    \cup {ArgsSkill("s1"), PyStr(<<Tok("{"), StrTok("skill_name"), Tok(":"),
                                   CtlStrTok("s1"), Tok("}")>>)}
    \cup {PyStr(Dumps(d)) : d \in ReferenceObjects}
\* Payloads about as long as the snippet may be: n characters that are no JSON,
\* bare or between white space.
MaxOverLimit == 2
CharTok == Tok("x")
Repeat(tok, n) == [i \in 1..n |-> tok]
LongPayloads ==
    UNION {{PyStr(Repeat(CharTok, n)), PyStr(<<WsTok>> \o Repeat(CharTok, n) \o <<WsTok>>)} :
             n \in (SnippetLimit - 1)..(SnippetLimit + MaxOverLimit)}
ParseInputs ==
    [arguments : RawPayloads \cup LongPayloads, function_name : {"use_skill", "read_file"}]
NotParsed == [called |-> FALSE, args |-> PyNone, err |-> NoError]

ParseToolArgs ==
    /\ ~parse_out.called
    /\ LET r == _parse_tool_args(parse_in.arguments, parse_in.function_name)
       IN  parse_out' = [called |-> TRUE, args |-> r.args, err |-> r.err]
    /\ UNCHANGED <<callvars, sessionvars, fsvars, loadervars, agentvars, chatvars, parse_in, toolvars>>

(***************************************************************************)
(* One call of execute_tool, with any name and any arguments.               *)
(***************************************************************************)
ToolNames == Registry \cup {"foo", "use_skill"}
ToolArgs ==
    {PyNone, PyInt(1), PyList(<<>>), PyDict(EmptyMap),
     PyDict(MapPut(EmptyMap, "path", JStr("out.txt"))),
     PyDict(MapPut(EmptyMap, "path", JStr("nowhere.txt"))),
     PyDict(MapPut(EmptyMap, "path", PyInt(1))),
     PyDict(MapPut(EmptyMap, "command", JStr("ls"))),
     PyDict(MapPut(MapPut(EmptyMap, "path", JStr("out.txt")), "content", JStr("hi"))),
     PyDict(MapPut(MapPut(EmptyMap, "path", JStr("out.txt")), "content", JStr(CrLfText))),
     PyDict(MapPut(MapPut(EmptyMap, "path", JStr("out.txt")), "content", PyInt(1))),
     PyDict(MapPut(MapPut(EmptyMap, "path", JStr("out.txt")), "reason", JStr("hi")))}
NoToolCall == [called |-> FALSE, tool_name |-> "", args |-> PyNone, raise |-> FALSE,
               ran |-> FALSE, result |-> Text("")]

CallExecuteTool(tool_name, args) ==
    /\ \E e \in {execute_tool(tool_name, args)} :
           /\ tool_out' = [called |-> TRUE, tool_name |-> tool_name, args |-> args,
                           raise |-> e.raise, ran |-> e.ran, result |-> e.result]
           /\ workdir' = e.workdir
    /\ UNCHANGED <<callvars, sessionvars, fsvars, loadervars, agentvars, parsevars, pc, messages, full_messages,
                   round_count, tc_index, retval, llm_calls, offered, tools, use_out,
                   discover_out>>

(***************************************************************************)
(* One call of _handle_use_skill, with the files changing between calls.    *)
(***************************************************************************)
NoUseCall == [called |-> FALSE, skill_name |-> JStr(""), before |-> <<>>, raise |-> FALSE,
              result |-> Text(""), loader_called |-> FALSE, ret |-> Absent]

CallHandleUseSkill(skill_name) ==
    /\ pc = "idle"
    /\ \E h \in {_handle_use_skill(skill_name)} :
           /\ use_out' = [called |-> TRUE, skill_name |-> skill_name,
                          before |-> activated_skills, raise |-> h.raise,
                          result |-> h.result, loader_called |-> h.called,
                          ret |-> h.loader.ret]
           /\ activated_skills' = h.activated
           /\ skill_content' = h.loader.content
           /\ last' = (IF h.called
                       THEN [op |-> "activate_skill", name |-> skill_name.v, path |-> "",
                             ret |-> h.loader.ret, read |-> h.loader.read,
                             cached |-> activate_skill_cached(skill_name.v)]
                       ELSE last)
    /\ UNCHANGED <<callvars, sessionvars, fsvars, skill_metadata, skill_resources, skill_loader, max_rounds,
                   chatvars, parsevars, tool_out, discover_out>>

(***************************************************************************)
(* Several agents, each with its own activated_skills, sharing one          *)
(* SkillLoader, each processing use_skill requests.  As coroutines of one   *)
(* event loop a session runs until it awaits, and BaseAgent.activate_skill  *)
(* and SkillLoader.activate_skill await nothing; as threads the sessions    *)
(* are switched anywhere.                                                   *)
(***************************************************************************)
MaxSessions == 2
Sessions == 1..MaxSessions
SessionIdle(activated) ==
    [pc |-> "idle", name |-> "", content |-> EmptyText, activated |-> activated]
InitNoSessions ==
    /\ scheduler = "event_loop"
    /\ sessions = [s \in Sessions |-> SessionIdle(EmptyFn)]
    /\ marker_reads = [n \in SkillNames |-> 0]

\* Session s may take its next step.
CanRun_Always(s) == TRUE
CanRun(s) ==
    scheduler = "event_loop" => \A t \in Sessions \ {s} : sessions[t].pc = "idle"

\* base_agent.py:79-87 after the catalog returned content.
SessionInsert(activated, name, content) ==
    IF Truthy(content) THEN FnPut(activated, name, content) ELSE activated

\* base_agent.py:74-84 and skill_loader.py:111-117: the request up to the test
\* of the body cache.
SessionBegin(s, name) ==
    /\ sessions[s].pc = "idle"
    /\ CanRun(s)
    /\ sessions' =
          [sessions EXCEPT ![s] =
             IF name \in DOMAIN sessions[s].activated \/ name \notin DOMAIN skill_metadata
             THEN sessions[s]
             ELSE IF activate_skill_cached(name)
             THEN SessionIdle(SessionInsert(sessions[s].activated, name, skill_content[name]))
             ELSE [sessions[s] EXCEPT !.pc = "read_text", !.name = name]]
    /\ UNCHANGED <<callvars, fsvars, loadervars, agentvars, chatvars, parsevars, toolvars, scheduler,
                   marker_reads>>

\* skill_loader.py:127-128 and 137-140: read_text of the SKILL.md.
SessionRead(s) ==
    /\ sessions[s].pc = "read_text"
    /\ CanRun(s)
    /\ LET f == marker[skill_metadata[sessions[s].name].path]
       IN  IF f.st = "file"
           THEN /\ sessions' = [sessions EXCEPT ![s].pc = "store", ![s].content = f.text]
                /\ marker_reads' = [marker_reads EXCEPT ![sessions[s].name] = @ + 1]
           ELSE /\ sessions' = [sessions EXCEPT ![s] = SessionIdle(sessions[s].activated)]
                /\ marker_reads' = marker_reads
    /\ UNCHANGED <<callvars, fsvars, loadervars, agentvars, chatvars, parsevars, toolvars, scheduler>>

\* skill_loader.py:130-136 and base_agent.py:85-87: the body is stored and
\* returned, the agent inserts it.
SessionStore(s) ==
    /\ sessions[s].pc = "store"
    /\ CanRun(s)
    /\ skill_content' = FnPut(skill_content, sessions[s].name, sessions[s].content)
    /\ sessions' = [sessions EXCEPT ![s] =
                       SessionIdle(SessionInsert(sessions[s].activated, sessions[s].name,
                                                 sessions[s].content))]
    /\ UNCHANGED <<callvars, fsvars, skill_metadata, skill_resources, last, agentvars, chatvars,
                   parsevars, toolvars, scheduler, marker_reads>>

(***************************************************************************)
(* Two calls of BaseAgent.chat on the one agent, as coroutines of one event *)
(* loop.  The variables of the chat loop hold the locals of the call that   *)
(* is running; the other call's locals are parked.  The loop switches calls *)
(* where the running one awaits: the gateway (line 248) and a tool (lines   *)
(* 274 and 280), or when it has not begun or is over.                       *)
(***************************************************************************)
Calls == {1, 2}

\* Lines 194-235: messages, full_messages, round_count and what the loop binds
\* are locals of a call of chat.
CallLocals ==
    [pc |-> pc, messages |-> messages, full_messages |-> full_messages,
     round_count |-> round_count, tc_index |-> tc_index, retval |-> retval,
     llm_calls |-> llm_calls, tools |-> tools]
NotBegun ==
    [pc |-> "idle", messages |-> <<>>, full_messages |-> <<>>, round_count |-> 0,
     tc_index |-> 0, retval |-> NoMsg, llm_calls |-> 0, tools |-> <<>>]
InitNoCalls ==
    /\ current = 1
    /\ parked = NotBegun

\* Lines 248, 274 and 280: the awaits of chat.
AtAwait == pc \in {"await_llm", "tools"}

\* Line 209: full_messages is a new list of the call, not self.messages.
ResumedConversation_OnAgent(frame) == full_messages
ResumedConversation(frame) == frame.full_messages

\* The event loop suspends the running call and resumes the other.
CallSwitch ==
    /\ AtAwait \/ pc \in {"idle", "returned", "raised"}
    /\ current' = 3 - current
    /\ parked' = CallLocals
    /\ pc' = parked.pc
    /\ messages' = parked.messages
    /\ full_messages' = ResumedConversation(parked)
    /\ round_count' = parked.round_count
    /\ tc_index' = parked.tc_index
    /\ retval' = parked.retval
    /\ llm_calls' = parked.llm_calls
    /\ tools' = parked.tools
    /\ UNCHANGED <<sessionvars, fsvars, loadervars, agentvars, parsevars, toolvars, offered,
                   workdir>>

(***************************************************************************)
(* Specifications                                                           *)
(***************************************************************************)
InitFs ==
    /\ marker = [f \in Folders |-> FileOf(SkillText(f, 1))]
    /\ resfile = [f \in Folders |-> [p \in ResourcePaths |-> FileOf(ResourceText(1))]]

\* SkillLoader.__init__
InitLoader ==
    /\ skill_metadata = EmptyFn
    /\ skill_content = EmptyFn
    /\ skill_resources = EmptyFn
    /\ last = NoCall

InitChat ==
    /\ pc = "idle"
    /\ messages = <<>>
    /\ full_messages = <<>>
    /\ round_count = 0
    /\ tc_index = 0
    /\ retval = NoMsg
    /\ llm_calls = 0
    /\ tools = <<>>
    /\ workdir = [p \in WorkPaths |-> NoFile]

InitNoParse ==
    /\ parse_in = [arguments |-> PyNone, function_name |-> "use_skill"]
    /\ parse_out = NotParsed
    /\ tool_out = NoToolCall
    /\ use_out = NoUseCall
    /\ discover_out = NoDiscoverCall
    /\ InitNoSessions
    /\ InitNoCalls

\* BaseAgent.__init__ with a max_rounds, and a backend.
Init ==
    /\ InitFs /\ InitLoader /\ InitChat /\ InitNoParse
    /\ skill_loader = FALSE
    /\ max_rounds \in 0..MaxRounds
    /\ activated_skills = <<>>
    /\ offered \in Profiles

Next ==
    \/ \E msgs \in InputMessages : ChatStart(msgs)
    \/ GatewayCall
    \/ ReturnAtRoundLimit
    \/ \E completion \in Completions : GatewayReply(completion)
    \/ ToolStep
    \/ ChatEnd
    \/ SetSkillLoader
    \/ \E scan \in ScanOrders : DiscoverSkills(scan)

Spec == Init /\ [][Next]_vars

\* The catalog alone, called directly, with the files changing under it.
InitCatalog ==
    /\ InitFs /\ InitLoader /\ InitChat /\ InitNoParse
    /\ skill_loader = FALSE
    /\ max_rounds = 0
    /\ activated_skills = <<>>
    /\ offered = {}

NextCatalog ==
    \/ \E scan \in ScanOrders : DiscoverSkills(scan)
    \/ \E name \in CallNames : CallActivateSkill(name)
    \/ \E name \in CallNames, path \in ResourcePaths : CallLoadResource(name, path)
    \/ \E f \in Folders : \E file \in MarkerFiles(f) : FsSetMarker(f, file)
    \/ \E f \in Folders, path \in ResourcePaths : \E file \in ResourceFiles(f) :
          FsSetResource(f, path, file)

SpecCatalog == InitCatalog /\ [][NextCatalog]_vars

\* The argument parser alone, on every payload.
InitParse ==
    /\ InitFs /\ InitLoader /\ InitChat
    /\ skill_loader = FALSE
    /\ max_rounds = 0
    /\ activated_skills = <<>>
    /\ offered = {}
    /\ parse_in \in ParseInputs
    /\ parse_out = NotParsed
    /\ tool_out = NoToolCall
    /\ use_out = NoUseCall
    /\ discover_out = NoDiscoverCall
    /\ InitNoSessions
    /\ InitNoCalls

NextParse == ParseToolArgs

SpecParse == InitParse /\ [][NextParse]_vars

\* The tool registry alone, called directly.
InitTools ==
    /\ InitFs /\ InitLoader /\ InitChat /\ InitNoParse
    /\ skill_loader = FALSE
    /\ max_rounds = 0
    /\ activated_skills = <<>>
    /\ offered = {}

NextTools == \E tool_name \in ToolNames, args \in ToolArgs : CallExecuteTool(tool_name, args)

SpecTools == InitTools /\ [][NextTools]_vars

\* The activation handler alone, called directly, with the SKILL.md files
\* changing under the catalog.
InitSkills ==
    /\ InitFs /\ InitLoader /\ InitChat /\ InitNoParse
    /\ skill_loader = FALSE
    /\ max_rounds = 0
    /\ activated_skills = <<>>
    /\ offered = {}

NextSkills ==
    \/ SetSkillLoader
    \/ \E scan \in ScanOrders : DiscoverSkills(scan)
    \/ \E f \in Folders : \E file \in MarkerFiles(f) : FsSetMarker(f, file)
    \/ \E name \in CallNames : CallHandleUseSkill(JStr(name))

SpecSkills == InitSkills /\ [][NextSkills]_vars

\* load_resource alone, called with any path, with the resource files changing.
InitResources ==
    /\ InitFs /\ InitLoader /\ InitChat /\ InitNoParse
    /\ skill_loader = FALSE
    /\ max_rounds = 0
    /\ activated_skills = <<>>
    /\ offered = {}

NextResources ==
    \/ \E scan \in ScanOrders : DiscoverSkills(scan)
    \/ \E name \in CallNames, path \in ResourcePaths \cup EscapingPaths :
          CallLoadResource(name, path)
    \/ \E f \in Folders, path \in ResourcePaths : \E file \in ResourceFiles(f) :
          FsSetResource(f, path, file)

SpecResources == InitResources /\ [][NextResources]_vars

\* Sessions sharing one catalog, run by one event loop or as threads, with the
\* SKILL.md of one bundle rewritten or locked meanwhile.
SessionSkills == SkillNames
SessionMarkerFiles == {FileUnreadable, FileOf(SkillText("f1", 1)), FileOf(SkillText("f1", 2))}
InitSessions ==
    /\ InitFs /\ InitLoader /\ InitChat
    /\ parse_in = [arguments |-> PyNone, function_name |-> "use_skill"]
    /\ parse_out = NotParsed
    /\ tool_out = NoToolCall
    /\ use_out = NoUseCall
    /\ discover_out = NoDiscoverCall
    /\ skill_loader = TRUE
    /\ max_rounds = 0
    /\ activated_skills = <<>>
    /\ offered = {}
    /\ scheduler \in {"event_loop", "threads"}
    /\ sessions = [s \in Sessions |-> SessionIdle(EmptyFn)]
    /\ marker_reads = [n \in SkillNames |-> 0]
    /\ InitNoCalls

NextSessions ==
    \/ \E scan \in ScanOrders : DiscoverSkills(scan)
    \/ FsSetMarker("f1", FileOf(SkillText("f1", 2)))
    \/ \E s \in Sessions, name \in SessionSkills : SessionBegin(s, name)
    \/ \E s \in Sessions : SessionRead(s)
    \/ \E s \in Sessions : SessionStore(s)

SpecSessions == InitSessions /\ [][NextSessions]_vars

\* chat with any max_rounds, negative included, and with conversations that end
\* with a user message or with an assistant message.
MinRounds == -1
RoundsInputMessages == InputMessages \cup {<<UserMsg, AssistantText>>}
RoundsProfile == {Req("use_skill", ArgsSkill("s1")), Req("foo", ArgsEmptyObj)}
InitRounds ==
    /\ InitFs /\ InitLoader /\ InitChat /\ InitNoParse
    /\ skill_loader = FALSE
    /\ max_rounds \in MinRounds..MaxRounds
    /\ activated_skills = <<>>
    /\ offered = RoundsProfile

NextRounds ==
    \/ \E msgs \in RoundsInputMessages : ChatStart(msgs)
    \/ GatewayCall
    \/ ReturnAtRoundLimit
    \/ \E completion \in Completions : GatewayReply(completion)
    \/ ToolStep
    \/ ChatEnd
    \/ SetSkillLoader
    \/ \E scan \in ScanOrders : DiscoverSkills(scan)

SpecRounds == InitRounds /\ [][NextRounds]_vars

\* Two calls of chat on one agent with a catalog, interleaved at their awaits.
\* The backend answers plainly, or asks for a skill and then a write, or for
\* another skill; the first call is given a user message, the second no message.
CallsProfile ==
    {Req("use_skill", ArgsSkill("s1")), Req("use_skill", ArgsSkill("s2")),
     Req("write_file", ArgsWrite("out.txt", "hi"))}
CallsCompletions ==
    {[fail |-> FALSE, calls |-> c] :
        c \in {<<>>,
               <<Req("use_skill", ArgsSkill("s1")),
                 Req("write_file", ArgsWrite("out.txt", "hi"))>>,
               <<Req("use_skill", ArgsSkill("s2"))>>}}
CallInput(c) == IF c = 1 THEN <<UserMsg>> ELSE <<>>
InitCalls ==
    /\ InitFs /\ InitLoader /\ InitChat /\ InitNoParse
    /\ skill_loader = TRUE
    /\ max_rounds = MaxRounds
    /\ activated_skills = <<>>
    /\ offered = CallsProfile

NextCalls ==
    \/ \E scan \in ScanOrders : DiscoverSkills(scan)
    \/ ChatStart(CallInput(current))
    \/ GatewayCall
    \/ ReturnAtRoundLimit
    \/ \E completion \in CallsCompletions : GatewayReply(completion)
    \/ ToolStep
    \/ ChatEnd
    \/ CallSwitch

SpecCalls == InitCalls /\ [][NextCalls]_vars

(***************************************************************************)
(* Properties                                                               *)
(***************************************************************************)
ChatRunning == pc \in {"loop", "await_llm", "tools", "returned", "raised"}
ChatOver == pc \in {"returned", "raised"}
\* The positions of full_messages that this call of chat appended.
Appended == (1 + Len(messages) + 1)..Len(full_messages)
Replies == {i \in Appended : full_messages[i].role = "assistant"}
IsPlain(m) == m.role = "assistant" /\ m.tool_calls = <<>>
RequestsTools(m) == m.role = "assistant" /\ m.tool_calls # <<>>
SystemContent == full_messages[1].content

\* C1: chat makes at most max_rounds gateway calls, and when every reply of the
\* backend carried tool calls the call ends by returning, after exactly max_rounds
\* gateway calls, the last message of the conversation, and not by raising.
C1_RoundLimitReturnsLast ==
    /\ llm_calls <= max_rounds
    /\ (ChatOver /\ \A i \in Replies : RequestsTools(full_messages[i]))
          => /\ pc = "returned"
             /\ llm_calls = max_rounds
             /\ retval = Last(full_messages)

\* C2: a reply without tool calls is returned in the round it arrives in, as it
\* is; a reply with tool calls is not what chat returns before the round limit;
\* once chat has returned, no gateway call, tool execution or activation follows.
C2_PlainReplyIsReturned ==
    /\ [](\A i \in Replies :
             IsPlain(full_messages[i])
                => /\ i = Len(full_messages)
                   /\ pc = "returned"
                   /\ retval = full_messages[i]
                   /\ llm_calls = round_count
                   /\ Cardinality(Replies) = llm_calls)
    /\ []((pc = "returned" /\ round_count < max_rounds) => IsPlain(retval))
    /\ [][pc = "returned"
            => /\ pc' = "idle"
               /\ UNCHANGED <<activated_skills, skill_content, workdir>>]_vars
C2_Witness ==
    /\ pc = "returned"
    /\ round_count = 2
    /\ IsPlain(retval)
    /\ \E i \in Appended : full_messages[i].role = "tool"

\* C3: a call of chat ends by returning: after the round of the first reply
\* without tool calls, or else after max_rounds rounds.
C3_ChatReturnsWithinLimit ==
    /\ ChatRunning => round_count <= max_rounds
    /\ pc # "raised"
    /\ pc = "returned"
          => \/ IsPlain(Last(full_messages)) /\ Replies # {}
             \/ round_count = max_rounds

\* C4: the tool messages of a reply follow it directly, one per request, in the
\* order of the requests and with their ids and names: all of them once the
\* reply has been processed, the first ones while it is being processed.
ToolMessagesFollow(a, n) ==
    /\ a + n <= Len(full_messages)
    /\ \A i \in 1..n :
          /\ full_messages[a + i].role = "tool"
          /\ full_messages[a + i].tool_call_id = full_messages[a].tool_calls[i].id
          /\ full_messages[a + i].name = full_messages[a].tool_calls[i].function.name
C4_ToolMessagesInRequestOrder ==
    \A a \in Replies :
        RequestsTools(full_messages[a])
           => IF pc = "tools" /\ a = Len(full_messages) - (tc_index - 1)
              THEN ToolMessagesFollow(a, tc_index - 1)
              ELSE ToolMessagesFollow(a, Len(full_messages[a].tool_calls))

\* C5: when a use_skill request of an earlier round of this chat was answered
\* with the success message, the system message the gateway receives holds the
\* body of that skill.
BodyInSystemMessage(name) ==
    \E j \in 1..Len(SystemContent.bodies) : SystemContent.bodies[j].name = name
C5_ActivatedBodyInNextCall ==
    pc = "await_llm"
       => \A i \in Appended :
             (full_messages[i].role = "tool"
              /\ full_messages[i].content.kind = "skill_activated")
                => BodyInSystemMessage(full_messages[i].content.skill.v)

\* C6: in the system message of a gateway call, every body is the body of a
\* member of activated_skills, and the summary of every skill of the attached
\* catalog is there, activated or not.
C6_BodiesOnlyIfActivated ==
    pc = "await_llm"
       => /\ \A j \in 1..Len(SystemContent.bodies) :
                \E i \in 1..Len(activated_skills) :
                    activated_skills[i] = SystemContent.bodies[j]
          /\ skill_loader
                => \A n \in DOMAIN skill_metadata :
                      [name |-> n, description |-> skill_metadata[n].description]
                         \in SystemContent.summaries
C6_Witness ==
    /\ pc = "await_llm"
    /\ BodyInSystemMessage("s1")
    /\ Cardinality(SystemContent.summaries) = 2
    /\ round_count = 2

\* C7: once a body is cached it stays as it is, and activate_skill of that name
\* returns it without reading the SKILL.md, whatever the file holds by then.
C7_ActivateIdempotent ==
    [][\A n \in DOMAIN skill_content :
          /\ n \in DOMAIN skill_content'
          /\ skill_content'[n] = skill_content[n]
          /\ (last'.op = "activate_skill" /\ last'.name = n)
                => /\ last'.ret = Some(skill_content[n])
                   /\ ~last'.read]_vars
C7_Witness ==
    /\ last.op = "activate_skill"
    /\ last.cached
    /\ last.ret.some
    /\ marker[skill_metadata[last.name].path] # FileOf(last.ret.val)

\* C8 as claimed: load_resource of a cached pair returns the cached content
\* without a read, also when the file has been changed or removed.
C8_CachedAlsoWhenRemoved ==
    [][\A n \in DOMAIN skill_resources : \A p \in DOMAIN skill_resources[n] :
          (last'.op = "load_resource" /\ last'.name = n /\ last'.path = p)
             => /\ last'.ret = Some(skill_resources[n][p])
                /\ ~last'.read]_vars
\* C8 amended: a cached pair stays cached as it is and load_resource of it reads
\* no file; it returns the cached content when the file still exists, changed or
\* not, and absent when the file has been removed.
ResourceOf(n, p) == ResourceFile(ResolveResource(skill_metadata[n].path, p))
C8_CachedWhileFileExists ==
    [][\A n \in DOMAIN skill_resources : \A p \in DOMAIN skill_resources[n] :
          /\ n \in DOMAIN skill_resources'
          /\ p \in DOMAIN skill_resources'[n]
          /\ skill_resources'[n][p] = skill_resources[n][p]
          /\ (last'.op = "load_resource" /\ last'.name = n /\ last'.path = p)
                => /\ ~last'.read
                   /\ last'.ret = IF ResourceOf(n, p).st = "absent" THEN Absent
                                  ELSE Some(skill_resources[n][p])]_vars
C8_Witness ==
    /\ last.op = "load_resource"
    /\ last.cached
    /\ last.ret.some
    /\ ResourceOf(last.name, last.path) \notin {FileAbsent, FileOf(last.ret.val)}

\* C9: activate_skill and load_resource of a name that is not in skill_metadata
\* return None and leave the three maps of the catalog as they are.
C9_UnknownNameAbsent ==
    [][(last'.op \in {"activate_skill", "load_resource"}
        /\ last'.name \notin DOMAIN skill_metadata)
          => /\ last'.ret = Absent
             /\ UNCHANGED <<skill_metadata, skill_content, skill_resources>>]_vars
C9_Witness ==
    /\ last.op = "load_resource"
    /\ last.name = UnknownName
    /\ DOMAIN skill_metadata = SkillNames
    /\ last.ret = Absent

\* C10: _parse_tool_args returns a mapping and no error, or no arguments and an
\* error.
C10_MappingOrError ==
    parse_out.called
       => \/ parse_out.err = NoError /\ parse_out.args.t = "dict"
          \/ parse_out.err # NoError /\ parse_out.args = PyNone

\* C11: the reference cases of _parse_tool_args.  None and a blank string give
\* the empty mapping; a mapping is passed through; the serialization of an
\* object gives that object; another type gives the error naming the tool and
\* the type; a string that neither json.loads accepts gives the error naming the
\* tool and holding the stripped payload (its first SnippetLimit characters).
Min(a, b) == IF a < b THEN a ELSE b
IsBlank(a) == a.t = "str" /\ \A i \in 1..Len(a.v) : a.v[i] = WsTok
C11_ReferenceCases ==
    parse_out.called
       => LET a == parse_in.arguments
              fn == parse_in.function_name
              empty == [called |-> TRUE, args |-> PyDict(EmptyMap), err |-> NoError]
          IN  /\ a.t = "NoneType" => parse_out = empty
              /\ IsBlank(a) => parse_out = empty
              /\ a.t = "dict" => parse_out.args = a /\ parse_out.err = NoError
              /\ \A d \in ReferenceObjects :
                    a = PyStr(Dumps(d)) => parse_out.args = d /\ parse_out.err = NoError
              /\ a.t \notin {"NoneType", "dict", "str"}
                    => /\ parse_out.args = PyNone
                       /\ parse_out.err.kind = "not_json_string"
                       /\ parse_out.err.tool = fn
                       /\ parse_out.err.detail = <<Tok(a.t)>>
              /\ (a.t = "str" /\ ~IsBlank(a)
                  /\ ~json_loads(a.v, TRUE).ok /\ ~json_loads(a.v, FALSE).ok)
                    => LET n == Min(Len(Strip(a.v)), SnippetLimit)
                       IN  /\ parse_out.args = PyNone
                           /\ parse_out.err.kind = "invalid_json"
                           /\ parse_out.err.tool = fn
                           /\ SubSeq(parse_out.err.detail, 1, n) = SubSeq(Strip(a.v), 1, n)
C11_Witness ==
    /\ parse_out.called
    /\ parse_in.arguments = PyStr(Dumps(PyDict(MapPut(EmptyMap, "path", PyInt(1)))))
    /\ parse_out.args.t = "dict"
    /\ DOMAIN parse_out.args.v = {"path"}
    /\ parse_out.err = NoError

\* C12: execute_tool raises nothing; a name outside the registry gets the
\* unknown-tool text and no handler is called; a registered name gets the text
\* of its handler or the error text of the failure.
C12_ExecuteToolNeverRaises ==
    tool_out.called
       => /\ ~tool_out.raise
          /\ tool_out.tool_name \notin Registry
                => /\ tool_out.result = ToolText("unknown_tool", tool_out.tool_name, <<>>)
                   /\ ~tool_out.ran
          /\ (tool_out.tool_name \in Registry
              /\ (tool_out.args.t # "dict"
                  \/ DOMAIN tool_out.args.v # ToolParams(tool_out.tool_name)))
                => tool_out.result = ToolText("error_executing", tool_out.tool_name, <<>>)
C12_Witness ==
    /\ tool_out.called
    /\ tool_out.tool_name = "write_file"
    /\ tool_out.args = PyNone
    /\ tool_out.result.kind = "error_executing"

\* C13: a request for a tool that is neither use_skill nor registered, with
\* arguments that parse, gets a tool message holding the unknown-tool text, and
\* the round it came in does not end the call: the call is over only at the
\* round limit, by returning.
UnknownToolRequest(tc) ==
    /\ tc.function.name \notin Registry \cup {"use_skill"}
    /\ _parse_tool_args(tc.function.arguments, tc.function.name).err = NoError
AnsweredUnknown(a) ==
    \E i \in 1..Len(full_messages[a].tool_calls) :
        /\ UnknownToolRequest(full_messages[a].tool_calls[i])
        /\ a + i <= Len(full_messages)
C13_UnknownToolGoesOn ==
    \A a \in Replies :
        /\ \A i \in 1..Len(full_messages[a].tool_calls) :
              (UnknownToolRequest(full_messages[a].tool_calls[i])
               /\ a + i <= Len(full_messages))
                 => /\ full_messages[a + i].role = "tool"
                    /\ full_messages[a + i].content.kind = "unknown_tool"
        /\ (ChatOver /\ AnsweredUnknown(a) /\ \A b \in Replies : b <= a)
              => pc = "returned" /\ round_count = max_rounds

\* C14: no call of chat ends by raising: every tool call that has been
\* processed, whatever its name and arguments, has its tool message.
C14_ChatNeverRaises ==
    /\ pc # "raised"
    /\ pc \in {"loop", "await_llm", "returned"}
          => \A a \in Replies :
                \A i \in 1..Len(full_messages[a].tool_calls) :
                    /\ a + i <= Len(full_messages)
                    /\ full_messages[a + i].role = "tool"

\* C15: a use_skill request that names a member of activated_skills is answered
\* with the success message, without a call of the catalog, and leaves
\* activated_skills and the catalog's maps as they are.
RequestedSkill(tc) ==
    LET p == _parse_tool_args(tc.function.arguments, tc.function.name)
    IN  IF /\ tc.function.name = "use_skill"
           /\ p.err = NoError
           /\ p.args.t = "dict"
           /\ "skill_name" \in DOMAIN p.args.v
        THEN p.args.v["skill_name"]
        ELSE PyNone
C15_AlreadyActivatedNoReload ==
    [][(/\ pc = "tools"
        /\ RequestedSkill(CurrentToolCall).t = "jstr"
        /\ RequestedSkill(CurrentToolCall).v \in ActivatedNames)
          => /\ pc' \in {"tools", "loop"}
             /\ Last(full_messages').role = "tool"
             /\ Last(full_messages').content.kind = "skill_activated"
             /\ Last(full_messages').content.skill = RequestedSkill(CurrentToolCall)
             /\ UNCHANGED <<activated_skills, loadervars>>]_vars
C15_Witness ==
    /\ pc \in {"tools", "loop"}
    /\ \E i, j \in Appended :
          /\ i < j
          /\ j = Len(full_messages)
          /\ full_messages[i].role = "tool" /\ full_messages[j].role = "tool"
          /\ full_messages[i].content.kind = "skill_activated"
          /\ full_messages[j].content.kind = "skill_activated"
          /\ full_messages[i].content.skill = full_messages[j].content.skill

\* C16: a use_skill request for a skill that is not activated yet either gets
\* the body from the catalog, and then the skill is inserted with that body and
\* the answer is the success message, or gets none, and then activated_skills
\* is as before and the answer is the failure message naming the skill; nothing
\* is raised.
NotYetActivated ==
    \A i \in 1..Len(use_out.before) : use_out.before[i].name # use_out.skill_name.v
C16_TwoOutcomes ==
    (use_out.called /\ NotYetActivated)
       => /\ ~use_out.raise
          /\ use_out.result.skill = use_out.skill_name
          /\ IF use_out.ret.some
             THEN /\ activated_skills
                       = Append(use_out.before, [name |-> use_out.skill_name.v,
                                                 body |-> use_out.ret.val])
                  /\ use_out.result.kind = "skill_activated"
             ELSE /\ activated_skills = use_out.before
                  /\ use_out.result.kind = "skill_failed"

\* C17: every step keeps the entries of activated_skills, names and bodies, where
\* they are.
C17_ActivatedOnlyGrows ==
    [][\A i \in 1..Len(activated_skills) :
          /\ i <= Len(activated_skills')
          /\ activated_skills'[i] = activated_skills[i]]_vars
C17_Witness ==
    /\ Len(activated_skills) = 2
    /\ use_out.called
    /\ use_out.before = <<activated_skills[1]>>
    /\ marker["f1"] \notin {FileOf(activated_skills[1].body), FileOf(activated_skills[2].body)}

\* C18: the message the gateway makes of a failed backend call is one assistant
\* message holding the error text, without tool calls; chat returns it in the
\* round of the failure and calls the gateway no more.
C18_BackendFailureIsReturned ==
    \A i \in Appended :
        full_messages[i].content.kind = "api_error"
           => /\ full_messages[i].role = "assistant"
              /\ ~full_messages[i].has_tool_calls
              /\ full_messages[i].tool_calls = <<>>
              /\ i = Len(full_messages)
              /\ pc = "returned"
              /\ retval = full_messages[i]
              /\ llm_calls = round_count
              /\ Cardinality(Replies) = round_count
C18_Witness ==
    /\ pc = "returned"
    /\ retval.content.kind = "api_error"
    /\ round_count = 2
    /\ \E i \in Appended : full_messages[i].role = "tool"

\* C19 as claimed: a read_file that follows a successful write_file of the same
\* path in the conversation, with no write_file of that path in between, is
\* answered with a text that holds the content written.
\* The request a tool message answers: the one with its tool_call_id, in the
\* reply before it.
RequestAt(j) ==
    LET i == full_messages[j].tool_call_id[2]
    IN  full_messages[j - i].tool_calls[i]
ParsedAt(j) ==
    _parse_tool_args(RequestAt(j).function.arguments, RequestAt(j).function.name).args
ToolAnswers == {j \in Appended : full_messages[j].role = "tool"}
HasPath(args, path) ==
    args.t = "dict" /\ "path" \in DOMAIN args.v /\ args.v["path"] = JStr(path)
IsWriteOf(j, path) ==
    full_messages[j].name = "write_file" /\ HasPath(ParsedAt(j), path)
IsReadOf(j, path) ==
    full_messages[j].name = "read_file" /\ HasPath(ParsedAt(j), path)
Contains(text, part) ==
    \E k \in 0..(Len(text) - Len(part)) : SubSeq(text, k + 1, k + Len(part)) = part
\* The pairs (i, j): j, the last message, answers a read of the path whose last
\* write before j is the successful one that i answers.  (Every tool message
\* is the last message of the state it is appended in, and stays as it is.)
WriteThenRead ==
    IF ~(pc \in {"tools", "loop"} /\ Len(full_messages) \in ToolAnswers
         /\ Last(full_messages).name = "read_file")
    THEN {}
    ELSE {ij \in ToolAnswers \X {Len(full_messages)} :
            \E path \in WorkPaths :
                /\ ij[1] < ij[2]
                /\ full_messages[ij[1]].content.kind = "wrote"
                /\ IsWriteOf(ij[1], path)
                /\ IsReadOf(ij[2], path)
                /\ \A m \in ToolAnswers :
                      (ij[1] < m /\ m < ij[2]) => ~IsWriteOf(m, path)}
C19_ReadReturnsWritten ==
    \A ij \in WriteThenRead :
        /\ full_messages[ij[2]].content.kind = "file_content"
        /\ Contains(full_messages[ij[2]].content.detail,
                    Chars(ParsedAt(ij[1]).v["content"].v))
\* C19 amended: the text holds the content written with every CR LF and every
\* CR turned into LF, which is the content itself when it has no CR.
C19_ReadReturnsWrittenNewlines ==
    \A ij \in WriteThenRead :
        /\ full_messages[ij[2]].content.kind = "file_content"
        /\ full_messages[ij[2]].content.detail
              = UniversalNewlines(Chars(ParsedAt(ij[1]).v["content"].v))
        /\ "CR" \notin {Chars(ParsedAt(ij[1]).v["content"].v)[k] :
                           k \in 1..Len(Chars(ParsedAt(ij[1]).v["content"].v))}
              => Contains(full_messages[ij[2]].content.detail,
                          Chars(ParsedAt(ij[1]).v["content"].v))
C19_Witness ==
    \E ij \in WriteThenRead :
        /\ ij[2] > ij[1] + 1
        /\ ParsedAt(ij[1]).v["content"] = JStr("hi")
        /\ full_messages[ij[2]].content.detail = <<"hi">>

\* C20: discover_skills ends normally whatever the folders hold.  Every folder
\* whose SKILL.md can be read and has a header that parses is in the catalog
\* afterwards, with its folder as path, in either scan order; a folder without
\* SKILL.md, or with one that cannot be read or parsed, adds nothing; and on a
\* catalog that was empty the mapping returned is empty when no folder is valid.
ValidBundle(f) == marker[f].st = "file" /\ marker[f].text.fm \in {"ok", "noname"}
BundleName(f) == IF marker[f].text.fm = "noname" THEN f ELSE marker[f].text.name
ToolsOffered == {tools[i] : i \in 1..Len(tools)}
C21_OfferedTools ==
    pc = "await_llm"
       => /\ ToolsOffered \ {"use_skill"} = Registry
          /\ "use_skill" \in ToolsOffered <=> skill_loader
          /\ Cardinality(ToolsOffered) = Len(tools)
          /\ "use_skill" \notin Registry
C21_Witness ==
    /\ pc = "await_llm"
    /\ round_count = 2
    /\ ~skill_loader
    /\ Len(tools) = 5

\* C22: a request whose arguments give a parse error gets a tool message that
\* holds the error text, and processing it calls neither the catalog nor a tool
\* and changes neither activated_skills nor a file; the next request of the reply
\* is processed after it; and the round does not end the call: the call is over
\* only at the round limit, by returning.
ParseErrorOf(tc) == _parse_tool_args(tc.function.arguments, tc.function.name).err
AnsweredParseError(a) ==
    \E i \in 1..Len(full_messages[a].tool_calls) :
        /\ ParseErrorOf(full_messages[a].tool_calls[i]) # NoError
        /\ a + i <= Len(full_messages)
C22_ParseErrorBecomesToolMessage ==
    /\ [][(pc = "tools" /\ ParseErrorOf(CurrentToolCall) # NoError)
            => /\ Last(full_messages').role = "tool"
               /\ Last(full_messages').tool_call_id = CurrentToolCall.id
               /\ Last(full_messages').name = CurrentToolCall.function.name
               /\ Last(full_messages').content.kind = ParseErrorOf(CurrentToolCall).kind
               /\ Last(full_messages').content.tool = CurrentToolCall.function.name
               /\ Last(full_messages').content.detail = ParseErrorOf(CurrentToolCall).detail
               /\ UNCHANGED <<activated_skills, loadervars, workdir>>
               /\ IF tc_index < Len(CurrentAssistant.tool_calls)
                  THEN pc' = "tools" /\ tc_index' = tc_index + 1
                  ELSE pc' = "loop"]_vars
    /\ [](\A a \in Replies :
             (ChatOver /\ AnsweredParseError(a) /\ \A b \in Replies : b <= a)
                => pc = "returned" /\ round_count = max_rounds)

\* C23: in a call of chat at most one gateway call is outstanding, and it is
\* while the call waits for the reply; a gateway call is issued only when every
\* request of every earlier reply has its tool message; while a gateway call is
\* outstanding no tool runs; and the requests of a reply are processed one per
\* step, request i when the requests before it have their tool messages.
Outstanding == llm_calls - Cardinality(Replies)
AllAnswered ==
    \A a \in Replies : ToolMessagesFollow(a, Len(full_messages[a].tool_calls))
C23_GatewayAndToolsAlternate ==
    /\ [](ChatRunning => /\ Outstanding \in {0, 1}
                          /\ Outstanding = 1 <=> pc = "await_llm")
    /\ [][llm_calls' = llm_calls + 1 => pc # "tools" /\ AllAnswered]_vars
    /\ [][pc = "await_llm"
            => /\ UNCHANGED <<activated_skills, skill_content, workdir>>
               /\ llm_calls' = llm_calls
               /\ Len(full_messages') = Len(full_messages) + 1
               /\ Last(full_messages').role = "assistant"]_vars
    /\ [][(activated_skills' # activated_skills \/ skill_content' # skill_content
           \/ workdir' # workdir) => pc = "tools"]_vars
    /\ [][pc = "tools"
            => /\ llm_calls' = llm_calls
               /\ ToolMessagesFollow(Len(full_messages) - (tc_index - 1), tc_index - 1)
               /\ pc' # "raised"
                     => /\ Len(full_messages') = Len(full_messages) + 1
                        /\ Last(full_messages').role = "tool"
                        /\ Last(full_messages').tool_call_id = CurrentToolCall.id
                        /\ pc' = "tools" => tc_index' = tc_index + 1]_vars
C23_Witness ==
    /\ pc = "await_llm"
    /\ llm_calls = 2
    /\ Len(full_messages) = 1 + Len(messages) + 3
    /\ Len(full_messages[1 + Len(messages) + 1].tool_calls) = 2
    /\ Last(full_messages).role = "tool"
    /\ Last(full_messages).tool_call_id = <<1, 2>>

\* C24: load_resource of a discovered skill returns the content of a readable
\* resource file whether or not the skill's body is cached, and leaves the body
\* cache as it is; discover_skills and activate_skill leave the resource cache as
\* it is.
C24_CachesIndependent ==
    [][/\ last'.op = "load_resource"
             => /\ skill_content' = skill_content
                /\ (last'.name \in DOMAIN skill_metadata
                    /\ ResourceOf(last'.name, last'.path).st = "file")
                      => /\ last'.ret.some
                         /\ last'.name \in DOMAIN skill_resources'
                         /\ last'.path \in DOMAIN skill_resources'[last'.name]
                         /\ skill_resources'[last'.name][last'.path] = last'.ret.val
       /\ last'.op \in {"discover_skills", "activate_skill"}
             => skill_resources' = skill_resources]_vars
C24_Witness ==
    /\ last.op = "load_resource"
    /\ last.read
    /\ last.ret = Some(ResourceText(1))
    /\ last.name \notin DOMAIN skill_content
    /\ skill_content # EmptyFn

\* C25: every name with a cached body or a cached resource is in skill_metadata;
\* get_skill_description returns a description for every name of list_skills;
\* and after every call of discover_skills the body cache and the resource cache
\* are empty.
C25_LevelOneFirst ==
    /\ [](/\ DOMAIN skill_content \subseteq DOMAIN skill_metadata
          /\ DOMAIN skill_resources \subseteq DOMAIN skill_metadata)
    /\ [](\A n \in list_skills : get_skill_description(n).some)
    /\ [][last'.op = "discover_skills"
            => skill_content' = EmptyFn /\ skill_resources' = EmptyFn]_vars

\* C26: in the error of a payload that neither json.loads accepts, what follows
\* "Raw: " is at most SnippetLimit characters long.  (A token is one character
\* or more.)
C26_EchoAtMostLimit ==
    (parse_out.called /\ parse_out.err.kind = "invalid_json")
       => Len(parse_out.err.detail) <= SnippetLimit

\* C27: the content load_resource returns is the content of a file in the
\* bundle directory of the skill named, whatever the path given.
InsideBundle(loc, folder) ==
    Len(loc.dir) >= 2 /\ SubSeq(loc.dir, 1, 2) = <<SkillsDir, folder>>
C27_ResourceInsideBundle ==
    [][(last'.op = "load_resource" /\ last'.ret.some)
         => InsideBundle(ResolveResource(skill_metadata[last'.name].path, last'.path),
                         skill_metadata[last'.name].path)]_vars

\* C28 as claimed: however the sessions are run, while a session is between the
\* cache test and the cache store of activate_skill no other session takes a
\* step, and the SKILL.md of a skill is read at most once by activation.
InActivate(s) == sessions[s].pc \in {"read_text", "store"}
ActivatedWith(name, body) ==
    \E i \in 1..Len(activated_skills) : activated_skills[i] = [name |-> name, body |-> body]
C29_ReturnedBodyIsInserted ==
    /\ (use_out.called /\ NotYetActivated /\ use_out.ret.some)
          => /\ ActivatedWith(use_out.skill_name.v, use_out.ret.val)
             /\ use_out.result.kind = "skill_activated"
    /\ \A n \in DOMAIN skill_content : ActivatedWith(n, skill_content[n])

\* C30 as claimed: with max_rounds <= 0 chat calls the gateway never and
\* returns the last message of the conversation given, the system message when
\* that is empty, and this is no assistant message; and chat never returns the
\* placeholder of line 300-303, the conversation always holding the system
\* message.
GivenLast == IF messages = <<>> THEN full_messages[1] ELSE Last(messages)
NoRounds ==
    /\ max_rounds <= 0 => llm_calls = 0 /\ pc \notin {"await_llm", "tools", "raised"}
    /\ (max_rounds <= 0 /\ pc = "returned")
          => /\ retval = GivenLast
             /\ messages = <<>> => retval.role = "system"
NeverPlaceholder ==
    /\ retval # MaxRoundsPlaceholder
    /\ ChatRunning => full_messages # <<>> /\ full_messages[1].role = "system"
CallFrame(c) == IF c = current THEN CallLocals ELSE parked
Added(F) == (1 + Len(F.messages) + 1)..Len(F.full_messages)
RepliesOf(F) == {i \in Added(F) : F.full_messages[i].role = "assistant"}
Ordinal(F, i) == Cardinality({j \in RepliesOf(F) : j <= i})
\* The conversation of a call holds the system message, the messages the call
\* was given, one reply per gateway call the call has got an answer to, each
\* with the ids of that round of the call, and after a reply the tool messages
\* of its requests, in their order.
OwnConversation(F) ==
    /\ Len(F.full_messages) >= 1 + Len(F.messages)
    /\ F.full_messages[1].role = "system"
    /\ SubSeq(F.full_messages, 2, 1 + Len(F.messages)) = F.messages
    /\ Cardinality(RepliesOf(F)) = F.llm_calls - (IF F.pc = "await_llm" THEN 1 ELSE 0)
    /\ \A i \in Added(F) :
          LET m == F.full_messages[i]
          IN  \/ /\ m.role = "assistant"
                 /\ \A k \in 1..Len(m.tool_calls) : m.tool_calls[k].id = <<Ordinal(F, i), k>>
              \/ /\ m.role = "tool"
                 /\ \E a \in RepliesOf(F) :
                       /\ a < i
                       /\ \A b \in RepliesOf(F) : ~(a < b /\ b < i)
                       /\ i - a <= Len(F.full_messages[a].tool_calls)
                       /\ m.tool_call_id = F.full_messages[a].tool_calls[i - a].id
                       /\ m.name = F.full_messages[a].tool_calls[i - a].function.name
\* A step of the running call: the same call runs and its locals change.
CallStep == current' = current /\ CallLocals' # CallLocals
\* activated_skills holds a skill once, with the body the catalog holds.
ActivatedConsistent ==
    /\ \A i, j \in 1..Len(activated_skills) :
          activated_skills[i].name = activated_skills[j].name => i = j
    /\ \A i \in 1..Len(activated_skills) :
          /\ activated_skills[i].name \in DOMAIN skill_content
          /\ activated_skills[i].body = skill_content[activated_skills[i].name]
\* What the calls keep apart and what stays consistent.
CallsKeepApart ==
    /\ [](\A c \in Calls : CallFrame(c).pc # "idle"
             => /\ OwnConversation(CallFrame(c))
                /\ CallFrame(c).messages = CallInput(c))
    /\ [][current' = current => parked' = parked]_vars
    /\ [][current' # current => parked' = CallLocals /\ CallLocals' = parked]_vars
    /\ [][CallStep /\ pc # "idle" /\ pc' # "idle" => messages' = messages]_vars
    /\ []ActivatedConsistent
    /\ [][\A i \in 1..Len(activated_skills) :
             /\ i <= Len(activated_skills')
             /\ activated_skills'[i] = activated_skills[i]]_vars

\* C31, as stated: two calls of chat interleaved on one agent keep their own
\* conversations and leave the messages they were given as they are, the
\* activated skills stay consistent (a skill once, with the catalog's body), and
\* the steps of the calls change no other state than the activated skills.
C31_OnlyActivatedSkillsShared ==
    /\ CallsKeepApart
    /\ [][CallStep => UNCHANGED <<fsvars, skill_metadata, skill_content, skill_resources,
                                  skill_loader, max_rounds, workdir>>]_vars

\* C31, amended: two calls of chat interleaved on one agent keep their own
\* conversations and leave the messages they were given as they are, the
\* activated skills stay consistent (a skill once, with the catalog's body), and
\* the steps of the calls change, of the state they share, the activated skills,
\* the catalog's body cache and the files of the working directory, in tool
\* steps only.
C31_CallsKeepOwnConversations ==
    /\ CallsKeepApart
    /\ [][CallStep => UNCHANGED <<fsvars, skill_metadata, skill_resources, skill_loader,
                                  max_rounds>>]_vars
    /\ [][(CallStep /\ pc # "tools")
             => UNCHANGED <<activated_skills, skill_content, workdir>>]_vars
\* The first call is suspended between its two requests, having activated s1;
\* the second has activated s2 meanwhile and waits for its second reply.
C31_Witness ==
    /\ current = 2
    /\ parked.pc = "tools" /\ parked.tc_index = 2
    /\ parked.messages = <<UserMsg>>
    /\ Last(parked.full_messages).content.kind = "skill_activated"
    /\ Last(parked.full_messages).content.skill = JStr("s1")
    /\ pc = "await_llm" /\ llm_calls = 2
    /\ messages = <<>>
    /\ Last(full_messages).content.kind = "skill_activated"
    /\ Last(full_messages).content.skill = JStr("s2")
    /\ Len(activated_skills) = 2
    /\ activated_skills[1].name = "s1" /\ activated_skills[2].name = "s2"
    /\ DOMAIN skill_content = {"s1", "s2"}

====
